---- MODULE Spec2Model ----
(***************************************************************************)
(* Model of the generic tree container of src/Tree.ts (class Tree<T>), and *)
(* of the second copy of the class in src/unnamed/part_000 where the two   *)
(* differ (Tree.get).                                                      *)
(*                                                                         *)
(* The heap of Tree objects is the sequence `nodes`: an object reference   *)
(* is an index into it, the root is reference 1.  A Tree object is a       *)
(* record with the fields key and data, and with the optional fields       *)
(* parent and children present in the record's domain exactly when the     *)
(* JavaScript property is set.  The children object is an insertion        *)
(* ordered map, modelled as a sequence of entries [k, v].  Strings that    *)
(* the code takes apart (keys) are sequences of one-character strings.     *)
(***************************************************************************)
EXTENDS Integers, Sequences, FiniteSets, TLC

VARIABLES nodes, rootProps, last

vars == <<nodes, rootProps, last>>

(* ------------------------------ bounds --------------------------------- *)

\* number of Tree objects in one behaviour
MaxNodes == 4

(* ------------------------------ strings -------------------------------- *)

Digits == <<"0", "1", "2", "3", "4", "5", "6", "7", "8", "9">>

DigitVal(c) == CHOOSE d \in 0..9 : Digits[d + 1] = c

\* parseInt(k, 10) on a string of decimal digits
RECURSIVE parseInt(_)
parseInt(s) ==
  IF Len(s) = 0 THEN 0
  ELSE 10 * parseInt(SubSeq(s, 1, Len(s) - 1)) + DigitVal(s[Len(s)])

\* Number.prototype.toString, as used by Array.prototype.join
RECURSIVE toString(_)
toString(n) ==
  IF n < 10 THEN <<Digits[n + 1]>>
  ELSE toString(n \div 10) \o <<Digits[(n % 10) + 1]>>

\* String.prototype.split(".")
RECURSIVE split(_)
split(s) ==
  IF \A i \in 1..Len(s) : s[i] # "." THEN <<s>>
  ELSE LET i == CHOOSE j \in 1..Len(s) :
                  s[j] = "." /\ \A m \in 1..(j - 1) : s[m] # "."
       IN <<SubSeq(s, 1, i - 1)>> \o split(SubSeq(s, i + 1, Len(s)))

\* Array.prototype.join(".") on an array of numbers
RECURSIVE join(_)
join(a) ==
  IF Len(a) = 0 THEN <<>>
  ELSE IF Len(a) = 1 THEN toString(a[1])
  ELSE toString(a[1]) \o <<".">> \o join(Tail(a))

(* ------------------------- insertion-ordered map ----------------------- *)

\* Object.keys(o) / Object.values(o): keys such as "0.1" are not array
\* indices, so the iteration order is the insertion order
RECURSIVE ObjectKeys(_)
ObjectKeys(o) ==
  IF Len(o) = 0 THEN <<>> ELSE <<Head(o).k>> \o ObjectKeys(Tail(o))

RECURSIVE ObjectValues(_)
ObjectValues(o) ==
  IF Len(o) = 0 THEN <<>> ELSE <<Head(o).v>> \o ObjectValues(Tail(o))

HasKey(o, k) == \E i \in 1..Len(o) : o[i].k = k

\* o[k]
Lookup(o, k) == o[CHOOSE i \in 1..Len(o) : o[i].k = k].v

\* o[k] = v: an existing property keeps its position, a new one goes last
RECURSIVE Overwrite(_, _, _)
Overwrite(o, k, v) ==
  IF Len(o) = 0 THEN <<>>
  ELSE <<IF Head(o).k = k THEN [k |-> k, v |-> v] ELSE Head(o)>>
         \o Overwrite(Tail(o), k, v)

SetProperty(o, k, v) ==
  IF HasKey(o, k) THEN Overwrite(o, k, v) ELSE Append(o, [k |-> k, v |-> v])

(* ------------------------------ the class ------------------------------ *)

Has(obj, f) == f \in DOMAIN obj

RootKey == <<"0">>

\* the reference of the object that new Tree(props) returns: the first one
Root == 1

\* Array.prototype.map with the callback (k) => parseInt(k, 10)
RECURSIVE mapParseInt(_)
mapParseInt(a) ==
  IF Len(a) = 0 THEN <<>> ELSE <<parseInt(Head(a))>> \o mapParseInt(Tail(a))

\* mutant: the first segment is incremented instead of the last
incrementLast_First(a) == <<a[1] + 1>> \o Tail(a)

\* a[a.length - 1]++ on an array of numbers
incrementLast(a) == SubSeq(a, 1, Len(a) - 1) \o <<a[Len(a)] + 1>>

\* mutant: the next key is derived from the first key of the children
getNextChildKey_FirstKey(h, this) ==
  IF ~Has(h[this], "children") \/ Len(ObjectKeys(h[this].children)) = 0
  THEN h[this].key \o <<".", "0">>
  ELSE LET childKeys == ObjectKeys(h[this].children)
           lastKey == childKeys[1]
           keyArray == mapParseInt(split(lastKey))
       IN join(incrementLast(keyArray))

\* Tree.getNextChildKey
getNextChildKey(h, this) ==
  IF ~Has(h[this], "children") \/ Len(ObjectKeys(h[this].children)) = 0
  THEN h[this].key \o <<".", "0">>
  ELSE LET childKeys == ObjectKeys(h[this].children)
           lastKey == childKeys[Len(childKeys)]
           keyArray == mapParseInt(split(lastKey))
       IN join(incrementLast(keyArray))

\* new Tree(props, parent): returns the heap after the construction and the
\* reference of the new object.  parent = 0 stands for "no parent argument".
RECURSIVE Construct(_, _, _)
RECURSIVE ConstructChildren(_, _, _, _)
Construct(h, props, parent) ==
  LET this == Len(h) + 1
      base == IF parent # 0
              THEN [data |-> props, parent |-> parent,
                    key |-> getNextChildKey(h, parent)]
              ELSE [data |-> props, key |-> RootKey]
      h1 == Append(h, base)
  IN IF Has(props, "children")
     THEN LET h2 == [h1 EXCEPT ![this] = base @@ [children |-> <<>>]]
          IN [heap |-> ConstructChildren(h2, this, props.children, 1),
              ref |-> this]
     ELSE [heap |-> h1, ref |-> this]

\* the forEach loop of the constructor, from entry i of the children array
ConstructChildren(h, this, kids, i) ==
  IF i > Len(kids) THEN h
  ELSE LET r == Construct(h, kids[i], this)
           newChild == r.ref
           h3 == [r.heap EXCEPT ![this].children =
                     SetProperty(@, r.heap[newChild].key, newChild)]
       IN ConstructChildren(h3, this, kids, i + 1)

\* mutant: the children container is replaced by one that holds the new child
appendChild_Replace(h, this, nodeData) ==
  LET r == Construct(h, nodeData, this)
      childNode == r.ref
      childKey == r.heap[childNode].key
  IN [heap |-> [r.heap EXCEPT ![this] =
                   [children |-> <<[k |-> childKey, v |-> childNode]>>] @@ @],
      ref |-> childNode]

\* Tree.appendChild: the heap after the call and the reference it returns
appendChild(h, this, nodeData) ==
  LET r == Construct(h, nodeData, this)
      childNode == r.ref
      childKey == r.heap[childNode].key
  IN IF Has(r.heap[this], "children")
     THEN [heap |-> [r.heap EXCEPT ![this].children =
                        SetProperty(@, childKey, childNode)],
           ref |-> childNode]
     ELSE [heap |-> [r.heap EXCEPT ![this] =
                        @ @@ [children |-> <<[k |-> childKey, v |-> childNode]>>]],
           ref |-> childNode]

\* mutant: an empty container counts as no children
hasChildren_NonEmpty(h, this) ==
  Has(h[this], "children") /\ Len(h[this].children) > 0

\* Tree.hasChildren
hasChildren(h, this) == Has(h[this], "children")

\* Tree.depth
RECURSIVE depth(_, _)
depth(h, this) ==
  IF Has(h[this], "parent") THEN 1 + depth(h, h[this].parent) ELSE 0

\* Tree.childrenList
childrenList(h, this) ==
  IF ~Has(h[this], "children") THEN <<>> ELSE ObjectValues(h[this].children)

\* Tree.ancestors: nearest ancestor first
RECURSIVE ancestors(_, _)
ancestors(h, this) ==
  IF Has(h[this], "parent")
  THEN <<h[this].parent>> \o ancestors(h, h[this].parent)
  ELSE <<>>

\* Tree.descendants
RECURSIVE descendants(_, _)
RECURSIVE descendantsFrom(_, _, _)
descendants(h, this) ==
  IF ~Has(h[this], "children") THEN <<>>
  ELSE descendantsFrom(h, ObjectValues(h[this].children), 1)

\* the forEach loop of descendants, from entry i of the values array
descendantsFrom(h, kids, i) ==
  IF i > Len(kids) THEN <<>>
  ELSE <<kids[i]>> \o descendants(h, kids[i]) \o descendantsFrom(h, kids, i + 1)

\* the absent result (undefined) of a lookup that returns an object reference
Undefined == 0

\* Array.prototype.find with the test node.key === key
RECURSIVE findByKey(_, _, _)
findByKey(h, list, key) ==
  IF Len(list) = 0 THEN Undefined
  ELSE IF h[Head(list)].key = key THEN Head(list)
  ELSE findByKey(h, Tail(list), key)

\* Tree.get of src/Tree.ts
get(h, this, key) ==
  IF h[this].key = key THEN this
  ELSE findByKey(h, descendants(h, this), key)

\* Tree.get of src/unnamed/part_000
getPart000(h, this, key) == findByKey(h, descendants(h, this), key)

\* Array.prototype.reverse
RECURSIVE reverse(_)
reverse(a) == IF Len(a) = 0 THEN <<>> ELSE Append(reverse(Tail(a)), Head(a))

\* Array.prototype.pop: the array that is left
pop(a) == IF Len(a) = 0 THEN a ELSE SubSeq(a, 1, Len(a) - 1)

\* Array.prototype.map with the callback (a) => a.data[indexer]
RECURSIVE mapIndexer(_, _, _)
mapIndexer(h, a, indexer) ==
  IF Len(a) = 0 THEN <<>>
  ELSE <<h[Head(a)].data[indexer]>> \o mapIndexer(h, Tail(a), indexer)

\* mutant: the ancestors are not reversed
getPath_NoReverse(h, this, indexer, includeRoot) ==
  LET anc0 == ancestors(h, this)
      anc1 == IF ~includeRoot THEN pop(anc0) ELSE anc0
      path == mapIndexer(h, anc1, indexer)
  IN Append(path, h[this].data[indexer])

\* Tree.getPath
getPath(h, this, indexer, includeRoot) ==
  LET anc0 == ancestors(h, this)
      anc1 == IF ~includeRoot THEN pop(anc0) ELSE anc0
      anc2 == reverse(anc1)
      path == mapIndexer(h, anc2, indexer)
  IN Append(path, h[this].data[indexer])

\* the value of obj at a path of property names, when HasPath holds
RECURSIVE ValueAt(_, _)
ValueAt(obj, path) ==
  IF Len(path) = 0 THEN obj ELSE ValueAt(obj[Head(path)], Tail(path))

RECURSIVE HasPath(_, _)
HasPath(obj, path) ==
  IF Len(path) = 0 THEN TRUE
  ELSE Has(obj, Head(path)) /\ HasPath(obj[Head(path)], Tail(path))

\* mutant: the predicate is matched against the payload of the node
isMatch_Payload(object, source) ==
  \A c \in source :
    HasPath(object.data, c.path) /\ ValueAt(object.data, c.path) = c.value

\* lodash isMatch(object, source): every property of source, given as the
\* set of its [path, value] leaves, is present in object with that value
isMatch(object, source) ==
  \A c \in source : HasPath(object, c.path) /\ ValueAt(object, c.path) = c.value

\* Array.prototype.filter with the test isMatch(node, predicate)
RECURSIVE filterMatch(_, _, _)
filterMatch(h, list, predicate) ==
  IF Len(list) = 0 THEN <<>>
  ELSE IF isMatch(h[Head(list)], predicate)
       THEN <<Head(list)>> \o filterMatch(h, Tail(list), predicate)
       ELSE filterMatch(h, Tail(list), predicate)

\* Tree.findAllChildren
findAllChildren(h, this, predicate) ==
  filterMatch(h, childrenList(h, this), predicate)

\* Tree.findAllDescendants
findAllDescendants(h, this, predicate) ==
  filterMatch(h, descendants(h, this), predicate)

\* Tree.findOneDescendant
findOneDescendant(h, this, predicate) ==
  LET result == findAllDescendants(h, this, predicate)
  IN IF Len(result) # 0 THEN result[1] ELSE Undefined

\* Tree.findOneChild
findOneChild(h, this, predicate) ==
  LET result == findAllChildren(h, this, predicate)
  IN IF Len(result) # 0 THEN result[1] ELSE Undefined

RECURSIVE traverse(_, _, _)
RECURSIVE traverseFrom(_, _, _, _)
\* mutant: the callback is called after the children were traversed
traverse_PostOrder(h, this, log) ==
  IF Has(h[this], "children")
  THEN Append(traverseFrom(h, ObjectValues(h[this].children), 1, log), this)
  ELSE Append(log, this)

\* Tree.traverse with a callback that appends the node it is given to a log:
\* the log after the call
traverse(h, this, log) ==
  LET log1 == Append(log, this)
  IN IF Has(h[this], "children")
     THEN traverseFrom(h, ObjectValues(h[this].children), 1, log1)
     ELSE log1

\* the forEach loop of traverse, from entry i of the values array
traverseFrom(h, kids, i, log) ==
  IF i > Len(kids) THEN log
  ELSE traverseFrom(h, kids, i + 1, traverse(h, kids[i], log))

\* Tree.serialize
RECURSIVE serialize(_, _)
RECURSIVE serializeFrom(_, _, _)
serialize(h, this) ==
  IF ~Has(h[this], "children") THEN h[this].data
  ELSE [children |-> serializeFrom(h, ObjectValues(h[this].children), 1)]
         @@ h[this].data

\* mutant: the serialized children come out in the reverse order
serializeFrom_Reversed(h, kids, i) ==
  IF i > Len(kids) THEN <<>>
  ELSE serializeFrom(h, kids, i + 1) \o <<serialize(h, kids[i])>>

\* the map call of serialize, from entry i of the values array
serializeFrom(h, kids, i) ==
  IF i > Len(kids) THEN <<>>
  ELSE <<serialize(h, kids[i])>> \o serializeFrom(h, kids, i + 1)

(* ------------------------------ the inputs ----------------------------- *)

\* values of the payload field "name" of the generated records
Names == {"a"}

\* the well-formed nested records of exactly s nodes: a payload, and an
\* optional children array (absent, empty, or of nested records)
RECURSIVE RecordsOfSize(_)
RECURSIVE ArraysOfSize(_)
RecordsOfSize(s) ==
  (IF s = 1 THEN {[name |-> v] : v \in Names} ELSE {})
  \cup {[name |-> v, children |-> a] : v \in Names, a \in ArraysOfSize(s - 1)}

\* the arrays of nested records that hold t nodes in all
ArraysOfSize(t) ==
  IF t = 0 THEN {<<>>}
  ELSE UNION {{<<r>> \o a : r \in RecordsOfSize(s), a \in ArraysOfSize(t - s)} :
                s \in 1..t}

\* number of nodes of a nested record
RECURSIVE Size(_)
RECURSIVE SizeFrom(_, _)
Size(r) == IF Has(r, "children") THEN 1 + SizeFrom(r.children, 1) ELSE 1

SizeFrom(a, i) == IF i > Len(a) THEN 0 ELSE Size(a[i]) + SizeFrom(a, i + 1)

Records == UNION {RecordsOfSize(s) : s \in 1..MaxNodes}

\* the four-node record of the scenarios
Scenario ==
  [name |-> "r",
   children |-> <<[name |-> "a"],
                  [name |-> "b", children |-> <<[name |-> "c"]>>]>>]

\* a record with more than ten children, so that child keys get two digits
Wide ==
  [name |-> "w",
   children |-> <<[name |-> "a"], [name |-> "a"], [name |-> "a"], [name |-> "a"],
                  [name |-> "a"], [name |-> "a"], [name |-> "a"], [name |-> "a"],
                  [name |-> "a"], [name |-> "a"], [name |-> "a"]>>]

InitRecords == Records \cup {Scenario, Wide}

\* the records that can still be appended
AppendRecords == {r \in Records : Len(nodes) + Size(r) <= MaxNodes}

Refs == 1..Len(nodes)

\* a key that no node can have
NoKey == <<"1">>

Keys == {nodes[n].key : n \in Refs} \cup {NoKey}

\* predicates on the payload field itself and on the wrapper's data field
Predicates ==
  {{}} \cup {{[path |-> <<"name">>, value |-> v]} : v \in {"a", "c"}}
       \cup {{[path |-> <<"data", "name">>, value |-> v]} : v \in {"a", "c"}}

(* ---------------------------- the state machine ------------------------ *)

Init ==
  /\ rootProps \in InitRecords
  /\ nodes = Construct(<<>>, rootProps, 0).heap
  /\ last = [op |-> "new", node |-> 1, arg |-> rootProps, ret |-> 1]

AppendChild ==
  \E this \in Refs, nodeData \in AppendRecords :
    /\ LET r == appendChild(nodes, this, nodeData)
       IN /\ nodes' = r.heap
          /\ last' = [op |-> "appendChild", node |-> this, arg |-> nodeData,
                      ret |-> r.ref]
    /\ UNCHANGED rootProps

GetNextChildKey ==
  \E this \in Refs :
    /\ last' = [op |-> "getNextChildKey", node |-> this, arg |-> <<>>,
                ret |-> getNextChildKey(nodes, this)]
    /\ UNCHANGED <<nodes, rootProps>>

Get ==
  \E this \in Refs, key \in Keys :
    /\ last' = [op |-> "get", node |-> this, arg |-> key,
                ret |-> get(nodes, this, key)]
    /\ UNCHANGED <<nodes, rootProps>>

GetPart000 ==
  \E this \in Refs, key \in Keys :
    /\ last' = [op |-> "getPart000", node |-> this, arg |-> key,
                ret |-> getPart000(nodes, this, key)]
    /\ UNCHANGED <<nodes, rootProps>>

GetPath ==
  \E this \in Refs, includeRoot \in BOOLEAN :
    /\ last' = [op |-> "getPath", node |-> this, arg |-> includeRoot,
                ret |-> getPath(nodes, this, "name", includeRoot)]
    /\ UNCHANGED <<nodes, rootProps>>

FindAllChildren ==
  \E this \in Refs, predicate \in Predicates :
    /\ last' = [op |-> "findAllChildren", node |-> this, arg |-> predicate,
                ret |-> findAllChildren(nodes, this, predicate)]
    /\ UNCHANGED <<nodes, rootProps>>

FindAllDescendants ==
  \E this \in Refs, predicate \in Predicates :
    /\ last' = [op |-> "findAllDescendants", node |-> this, arg |-> predicate,
                ret |-> findAllDescendants(nodes, this, predicate)]
    /\ UNCHANGED <<nodes, rootProps>>

FindOneChild ==
  \E this \in Refs, predicate \in Predicates :
    /\ last' = [op |-> "findOneChild", node |-> this, arg |-> predicate,
                ret |-> findOneChild(nodes, this, predicate)]
    /\ UNCHANGED <<nodes, rootProps>>

FindOneDescendant ==
  \E this \in Refs, predicate \in Predicates :
    /\ last' = [op |-> "findOneDescendant", node |-> this, arg |-> predicate,
                ret |-> findOneDescendant(nodes, this, predicate)]
    /\ UNCHANGED <<nodes, rootProps>>

HasChildren ==
  \E this \in Refs :
    /\ last' = [op |-> "hasChildren", node |-> this, arg |-> <<>>,
                ret |-> hasChildren(nodes, this)]
    /\ UNCHANGED <<nodes, rootProps>>

Traverse ==
  \E this \in Refs :
    /\ last' = [op |-> "traverse", node |-> this, arg |-> <<>>,
                ret |-> traverse(nodes, this, <<>>)]
    /\ UNCHANGED <<nodes, rootProps>>

Serialize ==
  \E this \in Refs :
    /\ last' = [op |-> "serialize", node |-> this, arg |-> <<>>,
                ret |-> serialize(nodes, this)]
    /\ UNCHANGED <<nodes, rootProps>>

\* the operations on the structure of the tree
Next ==
  \/ AppendChild
  \/ GetNextChildKey
  \/ HasChildren
  \/ GetPath
  \/ Traverse
  \/ Serialize

Spec == Init /\ [][Next]_vars

\* lookups by key, with both copies of Tree.get
NextGet ==
  \/ AppendChild
  \/ Get
  \/ GetPart000

SpecGet == Init /\ [][NextGet]_vars

\* searches by predicate on the trees as constructed
NextFind ==
  \/ FindAllChildren
  \/ FindAllDescendants
  \/ FindOneChild
  \/ FindOneDescendant

SpecFind == Init /\ [][NextFind]_vars

(* ------------------------- notions of the claims ----------------------- *)

\* decimal numeral of a natural number
RECURSIVE Numeral(_)
Numeral(n) ==
  IF n < 10 THEN <<Digits[n + 1]>>
  ELSE Append(Numeral(n \div 10), Digits[(n % 10) + 1])

\* m is n or lies below n, by the parent links
RECURSIVE Below(_, _, _)
Below(h, m, n) ==
  \/ m = n
  \/ Has(h[m], "parent") /\ Below(h, h[m].parent, n)

Subtree(h, n) == {m \in 1..Len(h) : Below(h, m, n)}

\* the nodes from the root down to n, by the parent links
RECURSIVE ChainDown(_, _)
ChainDown(h, n) ==
  IF Has(h[n], "parent") THEN Append(ChainDown(h, h[n].parent), n) ELSE <<n>>

Range(f) == {f[i] : i \in DOMAIN f}

\* a record without its children field
OmitChildren(d) == [f \in DOMAIN d \ {"children"} |-> d[f]]

\* the node of the heap with the given key, when there is exactly one
NodeWithKey(h, k) == CHOOSE n \in 1..Len(h) : h[n].key = k

(* -------------------------------- claims ------------------------------- *)

\* C1: in every tree reachable by construction and appendChild calls, every
\* node that was constructed is in the tree and no two different nodes have
\* the same key.
C1_KeysUnique ==
  /\ Subtree(nodes, Root) = Refs
  /\ Range(descendants(nodes, Root)) \cup {Root} = Refs
  /\ \A m, n \in Refs : m # n => nodes[m].key # nodes[n].key

\* a root with three children, the last one appended
C1_Witness ==
  /\ last.op = "appendChild"
  /\ last.node = Root
  /\ Len(childrenList(nodes, Root)) = 3

\* the layout of the keys: "0" at the root, parent.key + "." + i for the child
\* at the zero-based position i
KeyLayout(h) ==
  /\ h[Root].key = <<"0">>
  /\ \A p \in 1..Len(h) :
       \A i \in 1..Len(childrenList(h, p)) :
         /\ h[childrenList(h, p)[i]].key = h[p].key \o <<".">> \o Numeral(i - 1)
         /\ h[p].children[i].k = h[childrenList(h, p)[i]].key

\* C2: the root has key "0", the child at position i has key parent.key + "."
\* + i, getNextChildKey on a node with k children returns key + "." + k, and
\* calling it changes no node.
C2_KeyLayout ==
  /\ KeyLayout(nodes)
  /\ [][/\ KeyLayout(nodes')
        /\ last'.op = "getNextChildKey" =>
             /\ last'.ret = nodes[last'.node].key \o <<".">>
                              \o Numeral(Len(childrenList(nodes, last'.node)))
             /\ nodes' = nodes]_vars

\* the next key of a node that has eleven children
C2_Witness ==
  /\ last.op = "getNextChildKey"
  /\ Len(childrenList(nodes, last.node)) = 11
  /\ last.ret = <<"0", ".", "1", "1">>

\* C3: serialize() on a root constructed from the record X yields X.
C3_RoundTrip ==
  (last.op = "serialize" /\ last.node = Root /\ Len(nodes) = Size(rootProps))
    => last.ret = rootProps

\* a record with an empty children list and a record without one, nested
C3_Witness ==
  /\ last.op = "serialize"
  /\ last.node = Root
  /\ rootProps = [name |-> "a",
                  children |-> <<[name |-> "a", children |-> <<>>],
                                 [name |-> "a"]>>]
  /\ Len(nodes) = 3
  /\ last.ret = rootProps

\* C4: after n = parent.appendChild(d), parent.children[n.key] is n, n.parent
\* is parent, childrenList has one more entry with n last, and every previous
\* child is still stored under its previous key.
C4_AppendChild ==
  [][last'.op = "appendChild" =>
       LET parent == last'.node
           n == last'.ret
           before == IF Has(nodes[parent], "children")
                     THEN nodes[parent].children ELSE <<>>
           after == nodes'[parent].children
       IN /\ Has(nodes'[parent], "children")
          /\ HasKey(after, nodes'[n].key)
          /\ Lookup(after, nodes'[n].key) = n
          /\ Has(nodes'[n], "parent")
          /\ nodes'[n].parent = parent
          /\ Len(childrenList(nodes', parent))
               = Len(childrenList(nodes, parent)) + 1
          /\ childrenList(nodes', parent)[Len(after)] = n
          /\ \A i \in 1..Len(before) :
               /\ HasKey(after, before[i].k)
               /\ Lookup(after, before[i].k) = before[i].v
               /\ after[i] = before[i]]_vars

\* a child appended to a node that was constructed without a children
\* container and already got one child by an earlier call
C4_Witness ==
  /\ last.op = "appendChild"
  /\ ~Has(nodes[last.node].data, "children")
  /\ Len(childrenList(nodes, last.node)) = 2
  /\ childrenList(nodes, last.node)[2] = last.ret

\* C5: the data of a node built from the record d is d without its children
\* field, so that data never has a children field.
C5_DataOmitsChildren ==
  /\ nodes[Root].data = OmitChildren(rootProps)
  /\ last.op = "appendChild" => nodes[last.ret].data = OmitChildren(last.arg)
  /\ \A n \in Refs : ~Has(nodes[n].data, "children")

\* the result the lookup of key in the subtree of n is to give
Found(h, n, key) ==
  LET hits == {m \in Subtree(h, n) : h[m].key = key}
  IN IF hits = {} THEN Undefined ELSE CHOOSE m \in hits : TRUE

\* C6: n.get(k) is n when k is n's key, otherwise the node with key k among
\* the descendants of n, and absent when the subtree of n has no such node.
C6_Get ==
  last.op \in {"get", "getPart000"} =>
    /\ last.arg = nodes[last.node].key => last.ret = last.node
    /\ last.ret = Found(nodes, last.node, last.arg)

\* the lookup of src/Tree.ts alone gives the result of C6
GetOfTreeTs ==
  last.op = "get" =>
    /\ last.arg = nodes[last.node].key => last.ret = last.node
    /\ last.ret = Found(nodes, last.node, last.arg)

\* the nodes of the scenario, by their keys
ScenarioA == NodeWithKey(nodes, <<"0", ".", "0">>)
ScenarioC == NodeWithKey(nodes, <<"0", ".", "1", ".", "0">>)

PayloadName(v) == {[path |-> <<"name">>, value |-> v]}
DataName(v) == {[path |-> <<"data", "name">>, value |-> v]}

\* C7, as claimed: on the scenario tree a predicate that names the payload
\* field selects by payload: findAllChildren({name: "a"}) is the "a" node,
\* findAllDescendants({name: "c"}) the "c" node, findOneChild({name: "c"})
\* absent.
C7_PayloadPredicate ==
  (rootProps = Scenario /\ last.node = Root) =>
    /\ (last.op = "findAllChildren" /\ last.arg = PayloadName("a"))
         => last.ret = <<ScenarioA>>
    /\ (last.op = "findAllDescendants" /\ last.arg = PayloadName("c"))
         => last.ret = <<ScenarioC>>
    /\ (last.op = "findOneChild" /\ last.arg = PayloadName("c"))
         => last.ret = Undefined

\* C7, amended: the predicate is matched against the node, so the payload
\* field is named under data: findAllChildren({data: {name: "a"}}) is the "a"
\* node, findAllDescendants({data: {name: "c"}}) the "c" node,
\* findOneChild({data: {name: "c"}}) absent; a predicate that names the
\* payload field at the top level selects no node.
C7_WrapperPredicate ==
  (rootProps = Scenario /\ last.node = Root) =>
    /\ (last.op = "findAllChildren" /\ last.arg = DataName("a"))
         => last.ret = <<ScenarioA>> /\ nodes[ScenarioA].data.name = "a"
    /\ (last.op = "findAllDescendants" /\ last.arg = DataName("c"))
         => last.ret = <<ScenarioC>> /\ nodes[ScenarioC].data.name = "c"
    /\ (last.op = "findOneChild" /\ last.arg = DataName("c"))
         => last.ret = Undefined
    /\ (last.op \in {"findAllChildren", "findAllDescendants"}
          /\ \E v \in {"a", "c"} : last.arg = PayloadName(v))
         => last.ret = <<>>
    /\ (last.op \in {"findOneChild", "findOneDescendant"}
          /\ \E v \in {"a", "c"} : last.arg = PayloadName(v))
         => last.ret = Undefined

\* the "c" node found among the descendants of the scenario's root
C7_Witness ==
  /\ rootProps = Scenario
  /\ last.node = Root
  /\ last.op = "findAllDescendants"
  /\ last.arg = DataName("c")
  /\ last.ret = <<ScenarioC>>
  /\ depth(nodes, ScenarioC) = 2

\* the values of the field along a sequence of nodes
RECURSIVE FieldAlong(_, _, _)
FieldAlong(h, chain, f) ==
  IF chain = <<>> THEN <<>>
  ELSE <<h[Head(chain)].data[f]>> \o FieldAlong(h, Tail(chain), f)

\* C8: getPath(f, true) is the sequence of the f values from the root down to
\* the node (depth + 1 values); getPath(f, false) is that sequence without the
\* root's value (depth values), and the root's own value alone on the root;
\* getPath does not change the tree.
C8_GetPath ==
  [][last'.op = "getPath" =>
       LET n == last'.node
           full == FieldAlong(nodes, ChainDown(nodes, n), "name")
       IN /\ Len(full) = depth(nodes, n) + 1
          /\ last'.arg => last'.ret = full
          /\ (~last'.arg /\ n # Root) =>
               last'.ret = Tail(full) /\ Len(last'.ret) = depth(nodes, n)
          /\ (~last'.arg /\ n = Root) => last'.ret = <<nodes[Root].data.name>>
          /\ nodes' = nodes]_vars

\* the path of the scenario's "c" node, root included
C8_Witness ==
  /\ last.op = "getPath"
  /\ last.arg
  /\ depth(nodes, last.node) = 2
  /\ last.ret = <<"r", "b", "c">>

\* C9, as claimed: a node has a children container exactly when it was
\* constructed with at least one child or has had a child appended.
C9_ContainerIffChild ==
  /\ \A n \in Refs :
       Has(nodes[n], "children") <=> Len(childrenList(nodes, n)) > 0
  /\ last.op = "hasChildren" =>
       (last.ret <=> Len(childrenList(nodes, last.node)) > 0)

\* C9, amended: a node has a children container exactly when the record it
\* was constructed from carries a children list, empty or not, or it has had
\* a child appended; hasChildren() tells whether the container is there.
C9_ContainerIffList ==
  /\ \A n \in Refs :
       Has(nodes[n], "children")
         <=> (Has(nodes[n].data, "children") \/ Len(childrenList(nodes, n)) > 0)
  /\ last.op = "hasChildren" =>
       (last.ret <=> (\/ Has(nodes[last.node].data, "children")
                      \/ Len(childrenList(nodes, last.node)) > 0))

\* hasChildren() on a node constructed with an empty children list
C9_Witness ==
  /\ last.op = "hasChildren"
  /\ Has(nodes[last.node].data, "children")
  /\ Len(childrenList(nodes, last.node)) = 0
  /\ last.ret

\* the position of a node in a sequence without repetition
Position(s, m) == CHOOSE i \in 1..Len(s) : s[i] = m

\* C10: traverse(visit) calls visit once on each node of the subtree, the node
\* first, then the subtree of each child in insertion order, a parent before
\* its descendants: the sequence of the calls is n followed by n.descendants.
C10_Traverse ==
  last.op = "traverse" =>
    LET n == last.node
        log == last.ret
    IN /\ log = <<n>> \o descendants(nodes, n)
       /\ log[1] = n
       /\ Range(log) = Subtree(nodes, n)
       /\ Len(log) = Cardinality(Subtree(nodes, n))
       /\ \A j \in 2..Len(log) :
            \E i \in 1..(j - 1) : log[i] = nodes[log[j]].parent
       /\ \A p \in Subtree(nodes, n) :
            \A i, j \in 1..Len(childrenList(nodes, p)) :
              i < j =>
                \A a \in Subtree(nodes, childrenList(nodes, p)[i]) :
                  Position(log, a) < Position(log, childrenList(nodes, p)[j])

\* the four nodes of the scenario in the order r, a, b, c
C10_Witness ==
  /\ last.op = "traverse"
  /\ last.node = Root
  /\ rootProps = Scenario
  /\ FieldAlong(nodes, last.ret, "name") = <<"r", "a", "b", "c">>

====
